---------------------------- MODULE Spec2Model ----------------------------
(***************************************************************************)
(* Model of LockFreeHashTable<K,V> (src/lfht/LockFreeHashTable.hpp): a      *)
(* hash table of sorted bucket lists with tagged references, hazard        *)
(* pointer reclamation and a directory that is resized on load factor.     *)
(*                                                                         *)
(* Every thread executes a client program, a sequence of insert / remove / *)
(* contains calls (as main.cpp and lfht.cpp do).  A step of a thread is at *)
(* most one access to a shared location that another thread may write,     *)
(* together with the thread-local computation around it.                  *)
(*                                                                         *)
(* Heap objects have a life cycle unalloc -> live -> freed; operator new   *)
(* may hand out a freed address again.  A thread that dereferences freed   *)
(* memory has undefined behaviour: the model records it in uaf and lets    *)
(* the thread either stop (Crash) or go on with whatever the memory holds. *)
(***************************************************************************)
EXTENDS Integers, Sequences, FiniteSets, TLC

(* ------------------------------ bounds -------------------------------- *)
\* Number of node addresses of the modelled heap.
MaxNodes == 9
\* Number of bucket-array addresses of the modelled heap.
MaxArrays == 3
\* Width of the address field of a tagged reference in the model
\* (48 in the source; the model's heap needs MaxNodes < 2^AddrBits).
AddrBits == 4
\* Value at which the count of nodes one scan re-retires saturates.
MaxRepush == 3
\* static constexpr size_t MIN_BUCKETS.  The source value is 64; the model
\* scales the table down so that growth and shrink happen within a few
\* operations (growth needs more than 2 * MIN_BUCKETS live keys).
MIN_BUCKETS == 1
\* insert/remove pairs run before the worn initial state: the tag of the
\* bucket head starts at 2 * Cycles = 2^15 - 2.
Cycles == 16383

(* ------------------------- program constants -------------------------- *)
\* HP_COUNT_PER_THREAD
HP_COUNT_PER_THREAD == 3
\* Width of the version tag.
kTagBits == 15

Threads == {1, 2, 3}
Keys == 0 .. 4
Addr == 1 .. MaxNodes
ArrId == 1 .. MaxArrays
NULL == 0

(* --------------------------- MarkedPtr -------------------------------- *)
kPtrMask == 2 ^ AddrBits - 1
kTagMask == 2 ^ kTagBits - 1
kTagShift == AddrBits
kMarkShift == AddrBits + kTagBits

\* MarkedPtr without the & kTagMask of the tag: a tag of 2^15 carries into
\* the mark bit.
MarkedPtr_carry(p, m, t) ==
    ((p % (kPtrMask + 1))
     + ((t % 65536) * 2 ^ kTagShift)
     + ((IF m THEN 1 ELSE 0) * 2 ^ kMarkShift)) % 2 ^ (kMarkShift + 1)

\* MarkedPtr(void* ptr, bool marked, uint16_t tag): data = p | t | m.
\* The tag argument is converted to uint16_t before it is masked.
MarkedPtr(p, m, t) ==
    (p % (kPtrMask + 1))
    + (((t % 65536) % (kTagMask + 1)) * 2 ^ kTagShift)
    + ((IF m THEN 1 ELSE 0) * 2 ^ kMarkShift)

ptr(w) == w % (kPtrMask + 1)
\* tag() with a mask one bit too wide: the mark bit is read as part of the
\* tag.
tag_wide(w) == (w \div 2 ^ kTagShift) % (2 * (kTagMask + 1))
tag(w) == (w \div 2 ^ kTagShift) % (kTagMask + 1)
marked(w) == (w \div 2 ^ kMarkShift) % 2 = 1
\* get_node(mp) is mp.ptr() cast to a node pointer.
get_node(w) == ptr(w)

\* size_t hash(K key, size_t size): std::hash<int> is the identity.
hash(key, size) == key % size

(* ---------------------------- programs -------------------------------- *)
Call(o, k) == [op |-> o, key |-> k]
Ins(k) == Call("insert", k)
Rem(k) == Call("remove", k)
Con(k) == Call("contains", k)
ThreeThreads(p1, p2, p3) ==
    [t \in Threads |-> IF t = 1 THEN p1 ELSE IF t = 2 THEN p2 ELSE p3]
TwoThreads(p1, p2) == ThreeThreads(p1, p2, <<>>)

\* main.cpp lines 13-24 scaled with the table: the source inserts 200 keys
\* into 64 buckets (3.1 keys per initial bucket, one doubling), removes
\* three quarters of them and asks for a removed and for a remaining key;
\* here 3 keys go into MIN_BUCKETS = 1 bucket, 2 of them are removed.
GrowThenRemove == <<Ins(1), Ins(2), Ins(3), Rem(1), Rem(2), Con(2), Con(3)>>

\* The client programs the model runs.
Programs ==
    { \* one operator: growth, then a lookup (main.cpp:14-17)
      TwoThreads(<<Ins(0), Ins(1), Ins(2), Con(0)>>, <<>>),
      \* one operator: growth, then the same key again
      TwoThreads(<<Ins(1), Ins(2), Ins(0), Ins(0)>>, <<>>),
      \* one operator: lfht.cpp:11-14
      TwoThreads(<<Ins(1), Con(1), Rem(1), Con(1)>>, <<>>),
      \* one operator: growth, then removes down to a shrink (main.cpp:20-24)
      TwoThreads(<<Ins(0), Ins(1), Ins(3), Rem(3), Rem(0), Rem(1)>>, <<>>),
      \* a remove racing with an insert in front of its node
      TwoThreads(<<Ins(1), Rem(1)>>, <<Ins(0)>>),
      \* a lookup racing with a remove of the node it stands on
      TwoThreads(<<Ins(0), Ins(1), Con(1)>>, <<Rem(0)>>),
      \* a remove and a lookup racing with growth
      TwoThreads(<<Ins(0), Ins(1), Ins(2)>>, <<Rem(0), Con(0)>>),
      \* an insert and a lookup racing with growth
      TwoThreads(<<Ins(0), Ins(1), Ins(2)>>, <<Ins(3), Con(3)>>),
      \* two removes of the same key racing on the list and the retired list
      TwoThreads(<<Ins(0), Rem(0)>>, <<Rem(0)>>),
      TwoThreads(<<Ins(0), Ins(1), Rem(0), Rem(1)>>, <<Con(0)>>),
      TwoThreads(<<Ins(0), Ins(1), Ins(2)>>, <<Ins(3), Ins(4)>>),
      TwoThreads(GrowThenRemove, <<>>) }

\* Programs run on a platform where retire_node does not reach its scan
\* threshold (hardware_concurrency() >= 1 and fewer than six retired
\* nodes): the only scan is the destructor's.
Programs3 ==
    { ThreeThreads(<<Ins(2), Rem(2)>>, <<Rem(3)>>, <<Ins(1)>>),
      TwoThreads(<<Ins(0), Ins(1), Ins(2)>>, <<Ins(3), Con(3)>>),
      TwoThreads(<<Ins(0), Rem(0)>>, <<Rem(0)>>) }

\* Programs of the progress check: the races on the list and on the
\* retired list, a resize under way, and one operator growing and shrinking the table.
ProgramsLive ==
    { TwoThreads(<<Ins(0), Rem(0)>>, <<Rem(0)>>),
      TwoThreads(<<Ins(1), Rem(1)>>, <<Ins(0)>>),
      TwoThreads(<<Ins(0), Ins(1), Con(1)>>, <<Rem(0)>>),
      TwoThreads(<<Ins(0), Ins(1), Ins(2)>>, <<Rem(0), Con(0)>>),
      TwoThreads(<<Ins(0), Ins(1), Ins(3), Rem(3), Rem(0), Rem(1)>>, <<>>) }

\* Programs run on the worn table: the races on the list and on the
\* retired list, and one operator growing and shrinking the table.
ProgramsWorn ==
    { TwoThreads(<<Ins(0), Rem(0)>>, <<Rem(0)>>),
      TwoThreads(<<Ins(1), Rem(1)>>, <<Ins(0)>>),
      TwoThreads(<<Ins(0), Ins(1), Con(1)>>, <<Rem(0)>>),
      TwoThreads(<<Ins(0), Ins(1), Ins(3), Rem(3), Rem(0), Rem(1)>>, <<>>) }

\* The program run with the history of links recorded, on a table that
\* holds keys 1 and 2: a traversal meets node 1 marked while an insert links
\* a new node in front of it.
ProgramsLinks ==
    { ThreeThreads(<<Rem(1)>>, <<Con(2)>>, <<Ins(0)>>) }

VARIABLES
    current_array,  \* the directory's bucket-array pointer
    count,          \* live count (size_t, kept as its signed representative)
    resizing,       \* the resize flag
    arrState,       \* ArrId -> "unalloc" | "live" | "freed"
    buckets,        \* ArrId -> sequence of bucket heads (length = size)
    nodeState,      \* Addr -> "unalloc" | "live" | "freed"
    nodeKey,        \* Addr -> key
    nodeNext,       \* Addr -> tagged reference
    hp_head,        \* the hazard-record list, as a sequence of threads
    hp,             \* thread -> its three hazard slots
    retired_list,   \* head of the retired list
    retired_count,
    pc,             \* thread -> position in the code
    th,             \* thread -> its local variables
    prog,           \* thread -> the calls it has still to issue
    uaf,            \* kinds of undefined behaviour that have happened
    hist,           \* thread -> the calls it has completed, with their results
    call,           \* thread -> bookkeeping of the call in progress
    settled,        \* key -> "in" | "out" | "unknown" (see below)
    kept,           \* keys a completed resize had to carry over
    links,          \* thread -> links its find_bucket call lived through
    hardware_concurrency, \* what std::thread::hardware_concurrency() returns
    probe           \* two MarkedPtr values a caller builds, reads and compares

vars == <<current_array, count, resizing, arrState, buckets, nodeState,
          nodeKey, nodeNext, hp_head, hp, retired_list, retired_count,
          pc, th, prog, uaf, hist, call, settled, kept, links,
          hardware_concurrency, probe>>

heap == <<arrState, buckets, nodeState, nodeKey, nodeNext>>
smr == <<hp_head, hp, retired_list, retired_count>>
dir == <<current_array, count, resizing>>
\* History variables: they record what the clients observed and are never
\* read by the code.
ghost == <<hist, call, settled, kept>>
\* links[t] is a history variable too.  While thread t is inside
\* find_bucket it holds every pair <<slot, node>> such that, in some state
\* the call has been through, the slot held an unmarked pointer to the node
\* and the node's next field was unmarked.  The history is kept only by the
\* specification that starts from StartLinks; elsewhere links is Unrecorded
\* and stays so.
Unrecorded == <<>>
\* What the environment supplies: the calls still to be issued, the
\* platform's thread count, and the fields of the tagged references a caller
\* of MarkedPtr packs.
client == <<prog, hardware_concurrency, probe>>

\* probe while no MarkedPtr is under test.
NoProbe == [stage |-> "none"]

NoSlot == [a |-> 0, i |-> 0, n |-> 0]
BucketSlot(a, i) == [a |-> a, i |-> i, n |-> 0]
NodeSlot(n) == [a |-> 0, i |-> 0, n |-> n]

\* Bookkeeping of a call in progress:
\*   seen    how many calls every thread had completed when this one began
\*   expect  for contains(k): settled[k] at invocation, "unknown" as soon as
\*           a call that could change the answer is issued
\*   carried for contains(k): k was in kept at invocation and no remove(k)
\*           has been issued since
\*   cas     number of successful linking (insert) or marking (remove) CASes
\*   clean   no call that could undo this one overlapped it so far
\*   live    for a resizer: keys settled "in" when try_resize began and not
\*           removed since
Call0 ==
    [ seen |-> [u \in Threads |-> 0], expect |-> "unknown", carried |-> FALSE,
      cas |-> 0, clean |-> FALSE, live |-> {} ]

Locals0 ==
    [ op |-> "none", key |-> 0,
      array |-> 0, idx |-> 0, new_node |-> 0,
      prev |-> NoSlot, curr |-> 0, next_node |-> 0, curr_nextPtr |-> 0,
      expected |-> 0, curr_next |-> 0,
      node |-> 0, old_head |-> 0, caller |-> "none",
      protected_ptrs |-> {}, scan_head |-> 0, scan_next |-> 0,
      new_count |-> 0, temp_head |-> 0,
      old_array |-> 0, new_size |-> 0, new_array |-> 0, i |-> 0,
      rcurr |-> 0 ]

\* The state after construction, for a client program of P on a
\* platform whose hardware_concurrency() is in H.
Start(P, H) ==
    /\ current_array = 1
    /\ count = 0
    /\ resizing = FALSE
    /\ arrState = [a \in ArrId |-> IF a = 1 THEN "live" ELSE "unalloc"]
    /\ buckets = [a \in ArrId |->
                    IF a = 1 THEN [j \in 1 .. MIN_BUCKETS |-> MarkedPtr(NULL, FALSE, 0)]
                    ELSE <<>>]
    /\ nodeState = [n \in Addr |-> "unalloc"]
    /\ nodeKey = [n \in Addr |-> 0]
    /\ nodeNext = [n \in Addr |-> 0]
    /\ hp_head = <<>>
    /\ hp = [t \in Threads |-> [s \in 0 .. HP_COUNT_PER_THREAD - 1 |-> NULL]]
    /\ retired_list = NULL
    /\ retired_count = 0
    /\ pc = [t \in Threads |-> "idle"]
    /\ th = [t \in Threads |-> Locals0]
    /\ prog \in P
    /\ hardware_concurrency \in H
    /\ uaf = {}
    /\ hist = [t \in Threads |-> <<>>]
    /\ call = [t \in Threads |-> Call0]
    /\ settled = [k \in Keys |-> "out"]
    /\ kept = {}
    /\ links = Unrecorded

\* The state of the table once its constructing thread has run insert(1)
\* and insert(2): one bucket, node 1 (key 1) in front of node 2 (key 2), the
\* thread's hazard slots as its last traversal left them.  The history of
\* links is recorded from here on.
StartLinks(P, H) ==
    /\ current_array = 1
    /\ count = 2
    /\ resizing = FALSE
    /\ arrState = [a \in ArrId |-> IF a = 1 THEN "live" ELSE "unalloc"]
    /\ buckets = [a \in ArrId |->
                    IF a = 1 THEN [j \in 1 .. MIN_BUCKETS |-> MarkedPtr(1, FALSE, 1)]
                    ELSE <<>>]
    /\ nodeState = [n \in Addr |-> IF n \in {1, 2} THEN "live" ELSE "unalloc"]
    /\ nodeKey = [n \in Addr |-> IF n \in {1, 2} THEN n ELSE 0]
    /\ nodeNext = [n \in Addr |-> IF n = 1 THEN MarkedPtr(2, FALSE, 1) ELSE 0]
    /\ hp_head = <<1>>
    /\ hp = [t \in Threads |-> [s \in 0 .. HP_COUNT_PER_THREAD - 1 |->
                                   IF t = 1 /\ s = 2 THEN 1 ELSE NULL]]
    /\ retired_list = NULL
    /\ retired_count = 0
    /\ pc = [t \in Threads |-> "idle"]
    /\ th = [t \in Threads |-> Locals0]
    /\ prog \in P
    /\ hardware_concurrency \in H
    /\ uaf = {}
    /\ hist = [t \in Threads |-> <<>>]
    /\ call = [t \in Threads |-> Call0]
    /\ settled = [k \in Keys |-> IF k \in {1, 2} THEN "in" ELSE "out"]
    /\ kept = {}
    /\ links = [t \in Threads |-> {}]

\* The state of the table once its constructing thread has run insert(0);
\* remove(0) Cycles times on a platform whose hardware_concurrency() is 0:
\* the bucket head has been through 2 * Cycles successful CASes, the node
\* of the last pair is on the retired list (the thread's own hazard slots
\* still hold it), the node of the pair before has been freed.
StartWorn(P, H) ==
    /\ current_array = 1
    /\ count = 0
    /\ resizing = FALSE
    /\ arrState = [a \in ArrId |-> IF a = 1 THEN "live" ELSE "unalloc"]
    /\ buckets = [a \in ArrId |->
                    IF a = 1
                    THEN [j \in 1 .. MIN_BUCKETS |-> MarkedPtr(NULL, FALSE, 2 * Cycles)]
                    ELSE <<>>]
    /\ nodeState = [n \in Addr |-> IF n = 1 THEN "live"
                                    ELSE IF n = 2 THEN "freed" ELSE "unalloc"]
    /\ nodeKey = [n \in Addr |-> 0]
    /\ nodeNext = [n \in Addr |-> 0]
    /\ hp_head = <<1>>
    /\ hp = [t \in Threads |-> [s \in 0 .. HP_COUNT_PER_THREAD - 1 |->
                                   IF t = 1 /\ s > 0 THEN 1 ELSE NULL]]
    /\ retired_list = 1
    /\ retired_count = 1
    /\ pc = [t \in Threads |-> "idle"]
    /\ th = [t \in Threads |-> Locals0]
    /\ prog \in P
    /\ hardware_concurrency \in H
    /\ uaf = {}
    /\ hist = [t \in Threads |-> <<>>]
    /\ call = [t \in Threads |-> Call0]
    /\ settled = [k \in Keys |-> "out"]
    /\ kept = {}
    /\ links = Unrecorded

\* std::thread::hardware_concurrency() may return 0 ("not computable"),
\* which makes every retire_node call run a scan.
Init == Start(Programs, {0}) /\ probe = NoProbe
Init3 == Start(Programs3, {1}) /\ probe = NoProbe
InitLive == Start(ProgramsLive, {0}) /\ probe = NoProbe
InitWorn == StartWorn(ProgramsWorn, {0}) /\ probe = NoProbe
InitLinks == StartLinks(ProgramsLinks, {1}) /\ probe = NoProbe

(* ------------------------------ helpers ------------------------------- *)
Range(f) == {f[x] : x \in DOMAIN f}
Min(S) == CHOOSE x \in S : \A y \in S : x <= y
\* std::max with the clamp left out: the second argument as it is.
Max2_unclamped(a, b) == b
\* std::max
Max2(a, b) == IF a >= b THEN a ELSE b

\* BucketArray::size
size(a) == Len(buckets[a])
BucketAt(a, i) == IF i < Len(buckets[a]) THEN buckets[a][i + 1] ELSE 0

\* Load of the std::atomic<MarkedPtr> a slot reference points to.
SlotLoad(s) == IF s.n # 0 THEN nodeNext[s.n] ELSE BucketAt(s.a, s.i)
\* Store to it (the successful half of compare_exchange_strong).
SlotStore(s, w) ==
    /\ nodeNext' = IF s.n # 0 THEN [nodeNext EXCEPT ![s.n] = w] ELSE nodeNext
    /\ buckets' = IF s.n = 0 /\ s.i < Len(buckets[s.a])
                  THEN [buckets EXCEPT ![s.a][s.i + 1] = w]
                  ELSE buckets
SlotNodes(s) == IF s.n # 0 THEN {s.n} ELSE {}
SlotArrays(s) == IF s.n = 0 /\ s.a # 0 THEN {s.a} ELSE {}

\* Addresses operator new may return: the next address never used so
\* far, or any address that has been freed.
NewNodeChoices ==
    LET un == {n \in Addr : nodeState[n] = "unalloc"}
    IN  (IF un = {} THEN {} ELSE {Min(un)}) \cup {n \in Addr : nodeState[n] = "freed"}
NewArrayChoices ==
    LET un == {a \in ArrId : arrState[a] = "unalloc"}
    IN  (IF un = {} THEN {} ELSE {Min(un)}) \cup {a \in ArrId : arrState[a] = "freed"}

\* static_cast<double>(c) / size > UPPER_LOAD_FACTOR (2.0), c a size_t kept
\* as its signed representative: a negative c stands for c + 2^64.
AboveUpper(c, sz) == c < 0 \/ c > 2 * sz
\* The lower test with the upper threshold in its place (2.0 for 0.25).
BelowLower_upper(c, sz) == c >= 0 /\ c < 2 * sz
\* static_cast<double>(c) / size < LOWER_LOAD_FACTOR (0.25)
BelowLower(c, sz) == c >= 0 /\ 4 * c < sz

\* The nodes and arrays whose memory the next step of thread t accesses.
NodesTouched(t) ==
    LET l == th[t]
        p == pc[t]
    IN  (CASE p \in {"find_bucket_load", "find_bucket_verify", "remove_check",
                     "remove_mark", "contains_return"} -> {l.curr}
           [] p \in {"find_bucket_reload", "find_bucket_unlink_load",
                     "find_bucket_unlink_cas", "insert_cas", "remove_prev",
                     "remove_unlink"} -> SlotNodes(l.prev)
           [] p = "insert_check" ->
                 IF l.curr # NULL /\ nodeKey[l.curr] = l.key
                 THEN {l.curr} ELSE {l.curr} \cup SlotNodes(l.prev)
           [] p \in {"retire_node_push", "retire_node_store"} -> {l.node}
           [] p \in {"scan_loop", "scan_repush"} -> {l.scan_head}
           [] p = "rehash_bucket_node" -> {l.rcurr}
           [] OTHER -> {}) \ {NULL}
ArraysTouched(t) ==
    LET l == th[t]
        p == pc[t]
    IN  CASE p \in {"insert_begin", "remove_begin", "contains_begin"} -> {current_array}
          [] p \in {"find_bucket_init", "find_bucket_hp2", "find_bucket_restart",
                    "insert_count", "remove_count"} -> {l.array}
          [] p \in {"find_bucket_reload", "find_bucket_unlink_load",
                    "find_bucket_unlink_cas", "insert_cas", "remove_prev",
                    "remove_unlink"} -> SlotArrays(l.prev)
          [] p = "insert_check" ->
                 IF l.curr # NULL /\ nodeKey[l.curr] = l.key
                 THEN {} ELSE SlotArrays(l.prev)
          [] p \in {"try_resize_begin", "rehash_bucket_head"} -> {l.old_array}
          [] p = "dtor_delete" -> {current_array}
          [] OTHER -> {}
UafKinds(t) ==
    (IF \E n \in NodesTouched(t) : nodeState[n] # "live" THEN {"node"} ELSE {})
    \cup (IF \E a \in ArraysTouched(t) : arrState[a] # "live" THEN {"array"} ELSE {})
\* The slots of the table: the bucket heads of every array and the next
\* field of every node.
Slots ==
    UNION {{BucketSlot(a, i) : i \in 0 .. Len(buckets[a]) - 1} : a \in ArrId}
        \cup {NodeSlot(n) : n \in Addr}
\* The pairs <<slot, node>> of the current state in which the slot holds an
\* unmarked pointer to the node and the node's next field is unmarked.
CleanLinks ==
    {<<s, n>> \in Slots \X Addr :
        /\ ptr(SlotLoad(s)) = n
        /\ ~ marked(SlotLoad(s))
        /\ ~ marked(nodeNext[n])}
\* Thread t is inside find_bucket (lines 243-297), the retire_node call of
\* line 285 included.
InFind(t) ==
    \/ pc[t] \in {"find_bucket_init", "find_bucket_hp", "find_bucket_hp2",
                  "find_bucket_load", "find_bucket_verify", "find_bucket_reload",
                  "find_bucket_unlink_load", "find_bucket_restart",
                  "find_bucket_unlink_cas"}
    \/ /\ pc[t] \in {"retire_node_push", "retire_node_cas", "retire_node_store",
                     "retire_node_count", "scan_snapshot", "scan_detach",
                     "scan_loop", "scan_repush", "scan_repush_cas",
                     "scan_store_count"}
       /\ th[t].caller = "find_bucket"
\* The state a step leaves is added to the history of every call that is in
\* find_bucket in it.
Record ==
    links' = IF links = Unrecorded THEN links
             ELSE [u \in Threads |->
                     IF InFind(u) THEN links[u] \cup CleanLinks ELSE {}]
\* Every step of a thread records the undefined behaviour it commits.
Touch(t) ==
    /\ uaf' = uaf \cup UafKinds(t)
    /\ Record

Goto(t, l) == pc' = [pc EXCEPT ![t] = l]

\* Thread u is inside a call o(k).
Pending(u, o, k) == pc[u] # "idle" /\ th[u].op = o /\ th[u].key = k

\* settled[k] = "in": an insert(k) has linked its node and no remove(k)
\* was in progress then or has been issued since.  settled[k] = "out": the
\* table was created without k, or a remove(k) has returned true and no
\* insert(k) overlapped it or has been issued since.
\* The call returns r to the client.
Return(t, r) ==
    /\ pc' = [pc EXCEPT ![t] = "idle"]
    /\ hist' = [hist EXCEPT ![t] = Append(@,
                  [op |-> th[t].op, key |-> th[t].key, res |-> r,
                   seen |-> call[t].seen, expect |-> call[t].expect,
                   carried |-> call[t].carried, cas |-> call[t].cas])]
    /\ settled' = IF th[t].op = "remove" /\ r
                  THEN [settled EXCEPT ![th[t].key] =
                          IF call[t].clean THEN "out" ELSE "unknown"]
                  ELSE settled
    /\ call' = [call EXCEPT ![t] = Call0]
    /\ th' = [th EXCEPT ![t] = Locals0]
    /\ UNCHANGED kept

\* The calling thread's linking or marking CAS has succeeded.
Linearized(t) ==
    /\ call' = [call EXCEPT ![t].cas = @ + 1]
    /\ settled' = IF th[t].op = "insert"
                  THEN [settled EXCEPT ![th[t].key] =
                          IF \E u \in Threads : Pending(u, "remove", th[t].key)
                          THEN "unknown" ELSE "in"]
                  ELSE settled
    /\ UNCHANGED <<hist, kept>>

(* ------------------------------ client -------------------------------- *)
\* The client issues its next call (main.cpp:14-24, lfht.cpp:11-14).
Invoke(t) ==
    /\ pc[t] = "idle"
    /\ prog[t] # <<>>
    /\ LET c == Head(prog[t])
           k == c.key
           undo == IF c.op = "insert" THEN "remove" ELSE "insert"
       IN  /\ th' = [th EXCEPT ![t] = [Locals0 EXCEPT !.op = c.op, !.key = k]]
           /\ pc' = [pc EXCEPT ![t] =
                       CASE c.op = "insert" -> "insert_begin"
                         [] c.op = "remove" -> "remove_begin"
                         [] OTHER -> "contains_begin"]
           /\ settled' =
                 IF (c.op = "insert" /\ settled[k] = "out")
                    \/ (c.op = "remove" /\ settled[k] = "in")
                 THEN [settled EXCEPT ![k] = "unknown"]
                 ELSE settled
           /\ kept' = IF c.op = "remove" THEN kept \ {k} ELSE kept
           /\ call' = [u \in Threads |->
                 IF u = t
                 THEN [ seen |-> [v \in Threads |-> Len(hist[v])],
                        expect |-> IF c.op = "contains" THEN settled[k] ELSE "unknown",
                        carried |-> c.op = "contains" /\ k \in kept,
                        cas |-> 0,
                        clean |-> c.op # "contains"
                                  /\ ~ \E v \in Threads : Pending(v, undo, k),
                        live |-> {} ]
                 ELSE [ call[u] EXCEPT
                        !.expect = IF Pending(u, "contains", k)
                                      /\ ((c.op = "insert" /\ @ = "out")
                                          \/ (c.op = "remove" /\ @ = "in"))
                                   THEN "unknown" ELSE @,
                        !.carried = @ /\ ~ (c.op = "remove" /\ Pending(u, "contains", k)),
                        !.clean = @ /\ ~ Pending(u, undo, k),
                        !.live = IF c.op = "remove" THEN @ \ {k} ELSE @ ] ]
    /\ prog' = [prog EXCEPT ![t] = Tail(@)]
    /\ Record
    /\ UNCHANGED <<dir, heap, smr, uaf, hist, hardware_concurrency, probe>>

\* A thread about to access freed memory may stop instead (segmentation
\* fault, allocator abort): one of the outcomes of the undefined behaviour.
Crash(t) ==
    /\ pc[t] \notin {"idle", "crashed"}
    /\ UafKinds(t) # {}
    /\ Touch(t)
    /\ Goto(t, "crashed")
    /\ UNCHANGED <<dir, heap, smr, th, client, ghost>>

(* ---------------------------- find_bucket ----------------------------- *)
\* find_bucket returns {prev_nextPtr, curr} to the operation that called it.
FindReturn(t) ==
    Goto(t, CASE th[t].op = "insert" -> "insert_check"
              [] th[t].op = "remove" -> "remove_check"
              [] OTHER -> "contains_return")

\* lines 248-250: prev_nextPtr = &array->buckets[idx], curr = its node.
find_bucket_init(t) ==
    /\ pc[t] = "find_bucket_init"
    /\ LET l == th[t]
           prev == BucketSlot(l.array, l.idx)
       IN  th' = [th EXCEPT ![t].prev = prev,
                            ![t].curr = get_node(SlotLoad(prev)),
                            ![t].next_node = NULL]
    /\ Goto(t, "find_bucket_hp")
    /\ Touch(t)
    /\ UNCHANGED <<dir, heap, smr, client, ghost>>

\* lines 253-255: init_thread_hp (lines 363-379), then hp0 = next_node
\* (null) and hp1 = curr.  The push of the new record on hp_head is one
\* step: the record is not reachable before its CAS succeeds.
find_bucket_hp(t) ==
    /\ pc[t] = "find_bucket_hp"
    /\ hp_head' = IF t \in Range(hp_head) THEN hp_head ELSE <<t>> \o hp_head
    /\ hp' = [hp EXCEPT ![t][0] = th[t].next_node, ![t][1] = th[t].curr]
    /\ Goto(t, "find_bucket_hp2")
    /\ Touch(t)
    /\ UNCHANGED <<dir, heap, retired_list, retired_count, th, client, ghost>>

\* line 256: second load of the bucket head, published in hp2.
find_bucket_hp2(t) ==
    /\ pc[t] = "find_bucket_hp2"
    /\ hp' = [hp EXCEPT ![t][2] = get_node(SlotLoad(th[t].prev))]
    /\ Goto(t, "find_bucket_load")
    /\ Touch(t)
    /\ UNCHANGED <<dir, heap, hp_head, retired_list, retired_count, th, client, ghost>>

\* lines 259-266: return on null, else read curr->next and publish hp0.
find_bucket_load(t) ==
    /\ pc[t] = "find_bucket_load"
    /\ LET l == th[t]
       IN  IF l.curr = NULL
           THEN /\ FindReturn(t)
                /\ UNCHANGED <<th, hp>>
           ELSE /\ th' = [th EXCEPT ![t].curr_nextPtr = nodeNext[l.curr],
                                    ![t].next_node = get_node(nodeNext[l.curr])]
                /\ hp' = [hp EXCEPT ![t][0] = get_node(nodeNext[l.curr])]
                /\ Goto(t, "find_bucket_verify")
    /\ Touch(t)
    /\ UNCHANGED <<dir, heap, hp_head, retired_list, retired_count, client, ghost>>

\* find_bucket_verify with the mark test widened: the traversal also goes
\* on to unlink an unmarked node that holds the key it looks for.
find_bucket_verify_eager(t) ==
    /\ pc[t] = "find_bucket_verify"
    /\ LET l == th[t]
       IN  IF nodeNext[l.curr] # l.curr_nextPtr
           THEN /\ Goto(t, "find_bucket_reload")
                /\ UNCHANGED <<th, hp>>
           ELSE IF marked(l.curr_nextPtr) \/ nodeKey[l.curr] = l.key
           THEN /\ Goto(t, "find_bucket_unlink_load")
                /\ UNCHANGED <<th, hp>>
           ELSE IF nodeKey[l.curr] >= l.key
           THEN /\ FindReturn(t)
                /\ UNCHANGED <<th, hp>>
           ELSE /\ hp' = [hp EXCEPT ![t][2] = l.curr, ![t][1] = l.next_node]
                /\ th' = [th EXCEPT ![t].prev = NodeSlot(l.curr),
                                    ![t].curr = l.next_node]
                /\ Goto(t, "find_bucket_load")
    /\ Touch(t)
    /\ UNCHANGED <<dir, heap, hp_head, retired_list, retired_count, client, ghost>>

\* lines 268-295: re-read curr->next, then branch on mark and key.
find_bucket_verify(t) ==
    /\ pc[t] = "find_bucket_verify"
    /\ LET l == th[t]
       IN  IF nodeNext[l.curr] # l.curr_nextPtr
           THEN /\ Goto(t, "find_bucket_reload")
                /\ UNCHANGED <<th, hp>>
           ELSE IF marked(l.curr_nextPtr)
           THEN /\ Goto(t, "find_bucket_unlink_load")
                /\ UNCHANGED <<th, hp>>
           ELSE IF nodeKey[l.curr] >= l.key
           THEN /\ FindReturn(t)
                /\ UNCHANGED <<th, hp>>
           ELSE /\ hp' = [hp EXCEPT ![t][2] = l.curr, ![t][1] = l.next_node]
                /\ th' = [th EXCEPT ![t].prev = NodeSlot(l.curr),
                                    ![t].curr = l.next_node]
                /\ Goto(t, "find_bucket_load")
    /\ Touch(t)
    /\ UNCHANGED <<dir, heap, hp_head, retired_list, retired_count, client, ghost>>

\* lines 269-270: curr = get_node(prev_nextPtr->load()); continue.
find_bucket_reload(t) ==
    /\ pc[t] = "find_bucket_reload"
    /\ th' = [th EXCEPT ![t].curr = get_node(SlotLoad(th[t].prev))]
    /\ Goto(t, "find_bucket_load")
    /\ Touch(t)
    /\ UNCHANGED <<dir, heap, smr, client, ghost>>

\* lines 276-277: expected_curr = prev_nextPtr->load() and its test.
find_bucket_unlink_load(t) ==
    /\ pc[t] = "find_bucket_unlink_load"
    /\ LET l == th[t]
           e == SlotLoad(l.prev)
       IN  /\ th' = [th EXCEPT ![t].expected = e]
           /\ IF marked(e) \/ get_node(e) # l.curr
              THEN Goto(t, "find_bucket_restart")
              ELSE Goto(t, "find_bucket_unlink_cas")
    /\ Touch(t)
    /\ UNCHANGED <<dir, heap, smr, client, ghost>>

\* lines 278-280: restart from the bucket head.
find_bucket_restart(t) ==
    /\ pc[t] = "find_bucket_restart"
    /\ LET l == th[t]
           prev == BucketSlot(l.array, l.idx)
       IN  th' = [th EXCEPT ![t].prev = prev,
                            ![t].curr = get_node(SlotLoad(prev)),
                            ![t].expected = 0]
    /\ Goto(t, "find_bucket_load")
    /\ Touch(t)
    /\ UNCHANGED <<dir, heap, smr, client, ghost>>

\* lines 283-285: the unlink CAS, whose result is ignored, then
\* retire_node(curr).
find_bucket_unlink_cas(t) ==
    /\ pc[t] = "find_bucket_unlink_cas"
    /\ LET l == th[t]
           desired == MarkedPtr(l.next_node, FALSE, tag(l.expected) + 1)
       IN  /\ IF SlotLoad(l.prev) = l.expected
              THEN SlotStore(l.prev, desired)
              ELSE UNCHANGED <<nodeNext, buckets>>
           /\ th' = [th EXCEPT ![t].node = l.curr, ![t].caller = "find_bucket",
                               ![t].expected = 0]
    /\ Goto(t, "retire_node_push")
    /\ Touch(t)
    /\ UNCHANGED <<dir, arrState, nodeState, nodeKey, smr, client, ghost>>

(* ------------------- retire_node, scan_retired_nodes ------------------ *)
\* retire_node returns to find_bucket (line 286: curr = next_node;
\* continue) or to remove (line 203).
RetireReturn(t, l) ==
    IF l.caller = "find_bucket"
    THEN /\ th' = [th EXCEPT ![t] = [l EXCEPT !.curr = l.next_node, !.node = 0,
                                               !.old_head = 0, !.caller = "none"]]
         /\ Goto(t, "find_bucket_load")
    ELSE IF l.caller = "destructor"
    THEN /\ th' = [th EXCEPT ![t] = [l EXCEPT !.caller = "none"]]
         /\ Goto(t, "dtor_delete")
    ELSE /\ th' = [th EXCEPT ![t] = [l EXCEPT !.node = 0, !.old_head = 0,
                                               !.caller = "none"]]
         /\ Goto(t, "remove_count")

\* lines 383-385: load retired_list, node->next.store(old_head, false, 0).
retire_node_push(t) ==
    /\ pc[t] = "retire_node_push"
    /\ th' = [th EXCEPT ![t].old_head = retired_list]
    /\ nodeNext' = [nodeNext EXCEPT ![th[t].node] = MarkedPtr(retired_list, FALSE, 0)]
    /\ Goto(t, "retire_node_cas")
    /\ Touch(t)
    /\ UNCHANGED <<dir, arrState, buckets, nodeState, nodeKey, smr, client, ghost>>

\* lines 386-390: retired_list.compare_exchange_weak(old_head, node).
retire_node_cas(t) ==
    /\ pc[t] = "retire_node_cas"
    /\ IF retired_list = th[t].old_head
       THEN /\ retired_list' = th[t].node
            /\ Goto(t, "retire_node_count")
            /\ UNCHANGED th
       ELSE /\ th' = [th EXCEPT ![t].old_head = retired_list]
            /\ Goto(t, "retire_node_store")
            /\ UNCHANGED retired_list
    /\ Touch(t)
    /\ UNCHANGED <<dir, heap, hp_head, hp, retired_count, client, ghost>>

\* line 385 on a later iteration of the do-while.
retire_node_store(t) ==
    /\ pc[t] = "retire_node_store"
    /\ nodeNext' = [nodeNext EXCEPT ![th[t].node] = MarkedPtr(th[t].old_head, FALSE, 0)]
    /\ Goto(t, "retire_node_cas")
    /\ Touch(t)
    /\ UNCHANGED <<dir, arrState, buckets, nodeState, nodeKey, smr, th, client, ghost>>

\* lines 392-395: retired_count.fetch_add(1) + 1 >= threshold ? scan.
retire_node_count(t) ==
    /\ pc[t] = "retire_node_count"
    /\ retired_count' = retired_count + 1
    /\ IF retired_count + 1 >= 2 * hardware_concurrency * HP_COUNT_PER_THREAD
       THEN /\ Goto(t, "scan_snapshot")
            /\ UNCHANGED th
       ELSE RetireReturn(t, th[t])
    /\ Touch(t)
    /\ UNCHANGED <<dir, heap, hp_head, hp, retired_list, client, ghost>>

\* lines 400-409: collect the non-null hazard pointers of every record.
scan_snapshot(t) ==
    /\ pc[t] = "scan_snapshot"
    /\ th' = [th EXCEPT ![t].protected_ptrs =
                {hp[u][s] : u \in Range(hp_head), s \in 0 .. HP_COUNT_PER_THREAD - 1}
                \ {NULL}]
    /\ Goto(t, "scan_detach")
    /\ Touch(t)
    /\ UNCHANGED <<dir, heap, smr, client, ghost>>

\* lines 411-412: old_head = retired_list.exchange(nullptr); new_count = 0.
scan_detach(t) ==
    /\ pc[t] = "scan_detach"
    /\ th' = [th EXCEPT ![t].scan_head = retired_list, ![t].new_count = 0]
    /\ retired_list' = NULL
    /\ Goto(t, "scan_loop")
    /\ Touch(t)
    /\ UNCHANGED <<dir, heap, hp_head, hp, retired_count, client, ghost>>

\* lines 414-416, 428-432: read old_head->next, then free or re-retire.
scan_loop(t) ==
    /\ pc[t] = "scan_loop"
    /\ LET l == th[t]
       IN  IF l.scan_head = NULL
           THEN /\ Goto(t, "scan_store_count")
                /\ UNCHANGED <<th, nodeState>>
           ELSE IF l.scan_head \in l.protected_ptrs
           THEN /\ th' = [th EXCEPT ![t].scan_next = ptr(nodeNext[l.scan_head])]
                /\ Goto(t, "scan_repush")
                /\ UNCHANGED nodeState
           ELSE /\ nodeState' = [nodeState EXCEPT ![l.scan_head] = "freed"]
                /\ th' = [th EXCEPT ![t].scan_head = ptr(nodeNext[l.scan_head])]
                /\ UNCHANGED pc
    /\ Touch(t)
    /\ UNCHANGED <<dir, arrState, buckets, nodeKey, nodeNext, smr, client, ghost>>

\* lines 419-420: temp_head = retired_list.load(); old_head->next.store.
scan_repush(t) ==
    /\ pc[t] = "scan_repush"
    /\ th' = [th EXCEPT ![t].temp_head = retired_list]
    /\ nodeNext' = [nodeNext EXCEPT ![th[t].scan_head] = MarkedPtr(retired_list, FALSE, 0)]
    /\ Goto(t, "scan_repush_cas")
    /\ Touch(t)
    /\ UNCHANGED <<dir, arrState, buckets, nodeState, nodeKey, smr, client, ghost>>

\* lines 421-426, 431: the re-retire CAS, new_count++, old_head = next.
scan_repush_cas(t) ==
    /\ pc[t] = "scan_repush_cas"
    \* On a retired list with a cycle this loop never ends; the model's
    \* new_count saturates at MaxRepush, so that the loop is a cycle of
    \* states.
    /\ LET l == th[t]
       IN  IF retired_list = l.temp_head
           THEN /\ retired_list' = l.scan_head
                /\ th' = [th EXCEPT ![t].new_count = Min({l.new_count + 1, MaxRepush}),
                                    ![t].scan_head = l.scan_next,
                                    ![t].scan_next = 0, ![t].temp_head = 0]
                /\ Goto(t, "scan_loop")
           ELSE /\ Goto(t, "scan_repush")
                /\ UNCHANGED <<th, retired_list>>
    /\ Touch(t)
    /\ UNCHANGED <<dir, heap, hp_head, hp, retired_count, client, ghost>>

\* line 434: retired_count.store(new_count); the scan and retire_node return.
scan_store_count(t) ==
    /\ pc[t] = "scan_store_count"
    /\ retired_count' = th[t].new_count
    /\ RetireReturn(t, [th[t] EXCEPT !.protected_ptrs = {}, !.scan_head = 0,
                                     !.scan_next = 0, !.new_count = 0,
                                     !.temp_head = 0])
    /\ Touch(t)
    /\ UNCHANGED <<dir, heap, hp_head, hp, retired_list, client, ghost>>

(* ------------------------------ insert -------------------------------- *)
\* lines 138-140: load the directory, hash, allocate new_node.
insert_begin(t) ==
    /\ pc[t] = "insert_begin"
    /\ \E n \in NewNodeChoices :
        /\ nodeState' = [nodeState EXCEPT ![n] = "live"]
        /\ nodeKey' = [nodeKey EXCEPT ![n] = th[t].key]
        /\ nodeNext' = [nodeNext EXCEPT ![n] = MarkedPtr(NULL, FALSE, 0)]
        /\ th' = [th EXCEPT ![t] = [Locals0 EXCEPT
                     !.op = th[t].op, !.key = th[t].key,
                     !.array = current_array,
                     !.idx = hash(th[t].key, size(current_array)),
                     !.new_node = n]]
    /\ Goto(t, "find_bucket_init")
    /\ Touch(t)
    /\ UNCHANGED <<dir, arrState, buckets, smr, client, ghost>>

\* lines 146-159: duplicate test, link new_node, load and test prev.
insert_check(t) ==
    /\ pc[t] = "insert_check"
    /\ LET l == th[t]
       IN  IF l.curr # NULL /\ nodeKey[l.curr] = l.key
           THEN /\ nodeState' = [nodeState EXCEPT ![l.new_node] = "freed"]
                /\ Return(t, FALSE)
                /\ UNCHANGED nodeNext
           ELSE /\ nodeNext' = [nodeNext EXCEPT ![l.new_node] = MarkedPtr(l.curr, FALSE, 0)]
                /\ LET e == IF l.prev.n = l.new_node
                            THEN MarkedPtr(l.curr, FALSE, 0)
                            ELSE SlotLoad(l.prev)
                   IN  /\ th' = [th EXCEPT ![t].expected = e]
                       /\ IF marked(e) \/ get_node(e) # l.curr
                          THEN Goto(t, "insert_begin")
                          ELSE Goto(t, "insert_cas")
                /\ UNCHANGED <<nodeState, ghost>>
    /\ Touch(t)
    /\ UNCHANGED <<dir, arrState, buckets, nodeKey, smr, client>>

\* lines 161-162: prev_nextPtr->compare_exchange_strong(expected, desired).
insert_cas(t) ==
    /\ pc[t] = "insert_cas"
    /\ LET l == th[t]
           desired == MarkedPtr(l.new_node, FALSE, tag(l.expected) + 1)
       IN  IF SlotLoad(l.prev) = l.expected
           THEN /\ SlotStore(l.prev, desired)
                /\ Linearized(t)
                /\ Goto(t, "insert_count")
           ELSE /\ Goto(t, "insert_begin")
                /\ UNCHANGED <<nodeNext, buckets, ghost>>
    /\ Touch(t)
    /\ UNCHANGED <<dir, arrState, nodeState, nodeKey, smr, th, client>>

\* lines 163-169: count.fetch_add(1) + 1, load-factor test.
insert_count(t) ==
    /\ pc[t] = "insert_count"
    /\ count' = count + 1
    /\ LET l == th[t]
       IN  IF AboveUpper(count + 1, size(l.array))
           THEN /\ th' = [th EXCEPT ![t].old_array = l.array,
                                    ![t].new_size = size(l.array) * 2]
                /\ Goto(t, "try_resize_begin")
                /\ UNCHANGED ghost
           ELSE Return(t, TRUE)
    /\ Touch(t)
    /\ UNCHANGED <<current_array, resizing, heap, smr, client>>

(* ------------------------------ remove -------------------------------- *)
\* lines 176-177
remove_begin(t) ==
    /\ pc[t] = "remove_begin"
    /\ th' = [th EXCEPT ![t] = [Locals0 EXCEPT
                 !.op = th[t].op, !.key = th[t].key,
                 !.array = current_array,
                 !.idx = hash(th[t].key, size(current_array))]]
    /\ Goto(t, "find_bucket_init")
    /\ Touch(t)
    /\ UNCHANGED <<dir, heap, smr, client, ghost>>

\* lines 181-185: absent test, curr_next = curr->next.load(), mark test.
remove_check(t) ==
    /\ pc[t] = "remove_check"
    /\ LET l == th[t]
       IN  IF l.curr = NULL \/ nodeKey[l.curr] # l.key
           THEN Return(t, FALSE)
           ELSE /\ th' = [th EXCEPT ![t].curr_next = nodeNext[l.curr]]
                /\ IF marked(nodeNext[l.curr])
                   THEN Goto(t, "remove_begin")
                   ELSE Goto(t, "remove_mark")
                /\ UNCHANGED ghost
    /\ Touch(t)
    /\ UNCHANGED <<dir, heap, smr, client>>

\* lines 190-191: the mark CAS on curr->next.
remove_mark(t) ==
    /\ pc[t] = "remove_mark"
    /\ LET l == th[t]
           desired_marked == MarkedPtr(ptr(l.curr_next), TRUE, tag(l.curr_next) + 1)
       IN  IF nodeNext[l.curr] = l.curr_next
           THEN /\ nodeNext' = [nodeNext EXCEPT ![l.curr] = desired_marked]
                /\ Linearized(t)
                /\ Goto(t, "remove_prev")
           ELSE /\ Goto(t, "remove_begin")
                /\ UNCHANGED <<nodeNext, ghost>>
    /\ Touch(t)
    /\ UNCHANGED <<dir, arrState, buckets, nodeState, nodeKey, smr, th, client>>

\* lines 195-196: prev_expected = prev_ptr->load() and its test.
remove_prev(t) ==
    /\ pc[t] = "remove_prev"
    /\ LET l == th[t]
           e == SlotLoad(l.prev)
       IN  /\ th' = [th EXCEPT ![t].expected = e]
           /\ IF marked(e) \/ get_node(e) # l.curr
              THEN Goto(t, "remove_begin")
              ELSE Goto(t, "remove_unlink")
    /\ Touch(t)
    /\ UNCHANGED <<dir, heap, smr, client, ghost>>

\* lines 199-201: the unlink CAS; on success retire_node(curr).
remove_unlink(t) ==
    /\ pc[t] = "remove_unlink"
    /\ LET l == th[t]
           prev_desired == MarkedPtr(ptr(l.curr_next), FALSE, tag(l.expected) + 1)
       IN  IF SlotLoad(l.prev) = l.expected
           THEN /\ SlotStore(l.prev, prev_desired)
                /\ th' = [th EXCEPT ![t].node = l.curr, ![t].caller = "remove"]
                /\ Goto(t, "retire_node_push")
           ELSE /\ Goto(t, "remove_begin")
                /\ UNCHANGED <<nodeNext, buckets, th>>
    /\ Touch(t)
    /\ UNCHANGED <<dir, arrState, nodeState, nodeKey, smr, client, ghost>>

\* lines 203-207: count.fetch_sub(1) - 1, load-factor test.
remove_count(t) ==
    /\ pc[t] = "remove_count"
    /\ count' = count - 1
    /\ LET l == th[t]
       IN  IF BelowLower(count - 1, size(l.array))
           THEN /\ th' = [th EXCEPT ![t].old_array = l.array,
                                    ![t].new_size = Max2(MIN_BUCKETS, size(l.array) \div 2)]
                /\ Goto(t, "try_resize_begin")
                /\ UNCHANGED ghost
           ELSE Return(t, TRUE)
    /\ Touch(t)
    /\ UNCHANGED <<current_array, resizing, heap, smr, client>>

(* ----------------------------- contains ------------------------------- *)
\* lines 216-217
contains_begin(t) ==
    /\ pc[t] = "contains_begin"
    /\ th' = [th EXCEPT ![t].array = current_array,
                        ![t].idx = hash(th[t].key, size(current_array))]
    /\ Goto(t, "find_bucket_init")
    /\ Touch(t)
    /\ UNCHANGED <<dir, heap, smr, client, ghost>>

\* line 219: return (curr && curr->key == key).
contains_return(t) ==
    /\ pc[t] = "contains_return"
    /\ Return(t, th[t].curr # NULL /\ nodeKey[th[t].curr] = th[t].key)
    /\ Touch(t)
    /\ UNCHANGED <<dir, heap, smr, client>>

\* lines 305-308: size test, resizing.exchange(true), new BucketArray.
try_resize_begin(t) ==
    /\ pc[t] = "try_resize_begin"
    /\ LET l == th[t]
       IN  IF l.new_size = size(l.old_array) \/ resizing
           THEN /\ Return(t, TRUE)
                /\ UNCHANGED <<resizing, arrState, buckets>>
           ELSE /\ resizing' = TRUE
                /\ \E a \in NewArrayChoices :
                    /\ arrState' = [arrState EXCEPT ![a] = "live"]
                    /\ buckets' = [buckets EXCEPT ![a] =
                                     [j \in 1 .. l.new_size |-> MarkedPtr(NULL, FALSE, 0)]]
                    /\ th' = [th EXCEPT ![t].new_array = a, ![t].i = 0]
                /\ Goto(t, "rehash_bucket_head")
                /\ call' = [call EXCEPT ![t].live = {k \in Keys : settled[k] = "in"}]
                /\ UNCHANGED <<hist, settled, kept>>
    /\ Touch(t)
    /\ UNCHANGED <<current_array, count, nodeState, nodeKey, nodeNext, smr, client>>

\* lines 310-311, 331-332: loop test, curr = get_node(old_head.load()).
rehash_bucket_head(t) ==
    /\ pc[t] = "rehash_bucket_head"
    /\ LET l == th[t]
       IN  IF l.i < size(l.old_array)
           THEN LET c == get_node(BucketAt(l.old_array, l.i))
                IN  IF c = NULL
                    THEN /\ th' = [th EXCEPT ![t].i = l.i + 1]
                         /\ UNCHANGED pc
                    ELSE /\ th' = [th EXCEPT ![t].rcurr = c]
                         /\ Goto(t, "rehash_bucket_node")
           ELSE /\ Goto(t, "try_resize_swap")
                /\ UNCHANGED th
    /\ Touch(t)
    /\ UNCHANGED <<dir, heap, smr, client, ghost>>

\* lines 335-348: copy curr to the head of its new bucket, curr = next.
rehash_bucket_node(t) ==
    /\ pc[t] = "rehash_bucket_node"
    /\ LET l == th[t]
           new_idx == hash(nodeKey[l.rcurr], size(l.new_array))
           expected == BucketAt(l.new_array, new_idx)
       IN  \E new_node \in NewNodeChoices :
            LET desired == MarkedPtr(new_node, FALSE, tag(expected) + 1)
                nn == [nodeNext EXCEPT ![new_node] = expected]
                next == get_node(nn[l.rcurr])
            IN  /\ nodeState' = [nodeState EXCEPT ![new_node] = "live"]
                /\ nodeKey' = [nodeKey EXCEPT ![new_node] = nodeKey[l.rcurr]]
                /\ nodeNext' = nn
                /\ buckets' = [buckets EXCEPT ![l.new_array][new_idx + 1] = desired]
                /\ IF next = NULL
                   THEN /\ th' = [th EXCEPT ![t].rcurr = NULL, ![t].i = l.i + 1]
                        /\ Goto(t, "rehash_bucket_head")
                   ELSE /\ th' = [th EXCEPT ![t].rcurr = next]
                        /\ UNCHANGED pc
    /\ Touch(t)
    /\ UNCHANGED <<dir, arrState, smr, client, ghost>>

\* try_resize_swap with a plain store in place of the CAS: the new array is
\* installed whatever the directory holds.
try_resize_swap_store(t) ==
    /\ pc[t] = "try_resize_swap"
    /\ LET l == th[t]
       IN  IF TRUE
           THEN /\ current_array' = l.new_array
                /\ arrState' = [arrState EXCEPT ![l.old_array] = "freed"]
                /\ kept' = {k \in call[t].live : settled[k] = "in"}
           ELSE /\ arrState' = [arrState EXCEPT ![l.new_array] = "freed"]
                /\ UNCHANGED <<current_array, kept>>
    /\ Goto(t, "try_resize_clear")
    /\ Touch(t)
    /\ UNCHANGED <<count, resizing, buckets, nodeState, nodeKey, nodeNext, smr, th,
                   client, hist, call, settled>>

\* lines 314-319: the directory CAS, then delete old_array or new_array.
try_resize_swap(t) ==
    /\ pc[t] = "try_resize_swap"
    /\ LET l == th[t]
       IN  IF current_array = l.old_array
           THEN /\ current_array' = l.new_array
                /\ arrState' = [arrState EXCEPT ![l.old_array] = "freed"]
                /\ kept' = {k \in call[t].live : settled[k] = "in"}
           ELSE /\ arrState' = [arrState EXCEPT ![l.new_array] = "freed"]
                /\ UNCHANGED <<current_array, kept>>
    /\ Goto(t, "try_resize_clear")
    /\ Touch(t)
    /\ UNCHANGED <<count, resizing, buckets, nodeState, nodeKey, nodeNext, smr, th,
                   client, hist, call, settled>>

\* line 320: resizing.store(false); try_resize and the operation return.
try_resize_clear(t) ==
    /\ pc[t] = "try_resize_clear"
    /\ resizing' = FALSE
    /\ Return(t, TRUE)
    /\ Touch(t)
    /\ UNCHANGED <<current_array, count, heap, smr, client>>

(* --------------------------- specification ---------------------------- *)
(* ----------------------------- destructor ----------------------------- *)
\* The thread that constructed the table (main) and destroys it.
owner == 1

\* line 126: ~LockFreeHashTable() runs once every client has issued all its
\* calls and they have returned; it starts with scan_retired_nodes().
dtor_begin(t) ==
    /\ t = owner
    /\ \A u \in Threads : pc[u] = "idle" /\ prog[u] = <<>>
    /\ th' = [th EXCEPT ![t] = [Locals0 EXCEPT !.op = "destructor",
                                                !.caller = "destructor"]]
    /\ Goto(t, "scan_snapshot")
    /\ Touch(t)
    /\ UNCHANGED <<dir, heap, smr, client, ghost>>

\* line 128: delete current_array.load().
dtor_delete(t) ==
    /\ pc[t] = "dtor_delete"
    /\ arrState' = [arrState EXCEPT ![current_array] = "freed"]
    /\ Goto(t, "destroyed")
    /\ Touch(t)
    /\ UNCHANGED <<dir, buckets, nodeState, nodeKey, nodeNext, smr, th, client, ghost>>

\* A step of thread t.
Step(t) ==
    \/ Invoke(t)
    \/ Crash(t)
    \/ insert_begin(t)
    \/ insert_check(t)
    \/ insert_cas(t)
    \/ insert_count(t)
    \/ remove_begin(t)
    \/ remove_check(t)
    \/ remove_mark(t)
    \/ remove_prev(t)
    \/ remove_unlink(t)
    \/ remove_count(t)
    \/ contains_begin(t)
    \/ contains_return(t)
    \/ find_bucket_init(t)
    \/ find_bucket_hp(t)
    \/ find_bucket_hp2(t)
    \/ find_bucket_load(t)
    \/ find_bucket_verify(t)
    \/ find_bucket_reload(t)
    \/ find_bucket_unlink_load(t)
    \/ find_bucket_restart(t)
    \/ find_bucket_unlink_cas(t)
    \/ retire_node_push(t)
    \/ retire_node_cas(t)
    \/ retire_node_store(t)
    \/ retire_node_count(t)
    \/ scan_snapshot(t)
    \/ scan_detach(t)
    \/ scan_loop(t)
    \/ scan_repush(t)
    \/ scan_repush_cas(t)
    \/ scan_store_count(t)
    \/ try_resize_begin(t)
    \/ rehash_bucket_head(t)
    \/ rehash_bucket_node(t)
    \/ try_resize_swap(t)
    \/ try_resize_clear(t)
    \/ dtor_begin(t)
    \/ dtor_delete(t)

Next == \E t \in Threads : Step(t)

Spec == Init /\ [][Next]_vars

\* Every thread keeps being scheduled: the threads of the program are
\* operating-system threads, none of which waits for another.
LiveSpec == InitLive /\ [][Next]_vars /\ \A t \in Threads : WF_vars(Step(t))

Spec3 == Init3 /\ [][Next]_vars

\* The same program on a table whose bucket head is two CASes away from
\* the wrap of its version tag.
SpecWorn == InitWorn /\ [][Next]_vars

TypeOK ==
    /\ current_array \in ArrId
    /\ count \in Int
    /\ \A n \in Addr : nodeState[n] \in {"unalloc", "live", "freed"}

(* ------------------- reading histories and lists ---------------------- *)
\* The completed calls, <<thread, position in the thread's history>>.
Calls == UNION {{<<t, i>> : i \in 1 .. Len(hist[t])} : t \in Threads}
Rec(c) == hist[c[1]][c[2]]
\* Call d returned before call c was invoked.
Precedes(d, c) ==
    IF d[1] = c[1] THEN d[2] < c[2] ELSE d[2] <= Rec(c).seen[d[1]]

Quiescent == \A t \in Threads : pc[t] = "idle"
\* Only one operator has issued calls so far.
SingleOperator ==
    \E t \in Threads : \A u \in Threads \ {t} : pc[u] = "idle" /\ hist[u] = <<>>

\* In the sequence h of calls, some insert(k) before position i has not
\* been followed (before i) by a remove(k).
InSetBefore(h, i, k) ==
    \E j \in 1 .. i - 1 :
        /\ h[j].op = "insert" /\ h[j].key = k
        /\ \A m \in j + 1 .. i - 1 : ~ (h[m].op = "remove" /\ h[m].key = k)

\* The calls of thread t: completed, in progress, still to be issued.
FullProg(t) ==
    [i \in 1 .. Len(hist[t]) |-> Call(hist[t][i].op, hist[t][i].key)]
    \o (IF pc[t] # "idle" THEN <<Call(th[t].op, th[t].key)>> ELSE <<>>)
    \o prog[t]

\* The nodes reachable from the bucket heads of array a.
RECURSIVE Closure(_)
Closure(S) ==
    LET T == (S \cup {ptr(nodeNext[n]) : n \in S}) \ {NULL}
    IN  IF T = S THEN S ELSE Closure(T)
Reachable(a) == Closure({ptr(buckets[a][j]) : j \in 1 .. Len(buckets[a])} \ {NULL})
LiveNodes(a) == {n \in Reachable(a) : ~ marked(nodeNext[n])}
NoDuplicateKey(a) ==
    \A n, m \in LiveNodes(a) : n # m => nodeKey[n] # nodeKey[m]

\* Thread t takes the step.
Moved(t) == pc'[t] # pc[t] \/ th'[t] # th[t]

(* ------------------------------ claims -------------------------------- *)
\* C1: with a single operator the table behaves as a set: every
\* contains(k) returns true iff some preceding insert(k) has not been
\* followed by a remove(k).
C1_SetSemantics ==
    SingleOperator =>
        \A c \in Calls :
            Rec(c).op = "contains" =>
                (Rec(c).res <=> InSetBefore(hist[c[1]], c[2], Rec(c).key))

\* C2: with a single operator insert(k) returns true iff k was not live
\* (false iff it was), and a contains(k) right after an insert(k) is true.
C2_InsertResult ==
    SingleOperator =>
        \A c \in Calls :
            Rec(c).op = "insert" =>
                /\ Rec(c).res <=> ~ InSetBefore(hist[c[1]], c[2], Rec(c).key)
                /\ \A d \in Calls :
                     (d[1] = c[1] /\ d[2] = c[2] + 1 /\ Rec(d).op = "contains"
                      /\ Rec(d).key = Rec(c).key) => Rec(d).res

\* C3: remove(k) returns true iff the caller's own CAS set a deletion mark.
C3_RemoveResult ==
    \A c \in Calls : Rec(c).op = "remove" => (Rec(c).res <=> Rec(c).cas > 0)

\* C4: the completed calls can be put in one sequence that respects the
\* order of non-overlapping calls and is a legal history of a set.
Legal(r, S) ==
    CASE r.op = "insert" -> r.res <=> (r.key \notin S)
      [] r.op = "remove" -> r.res <=> (r.key \in S)
      [] OTHER -> r.res <=> (r.key \in S)
Apply(r, S) ==
    CASE r.op = "insert" -> S \cup {r.key}
      [] r.op = "remove" -> S \ {r.key}
      [] OTHER -> S
RECURSIVE Linearization(_, _)
Linearization(done, S) ==
    \/ done = Calls
    \/ \E c \in Calls \ done :
        /\ \A d \in Calls : Precedes(d, c) => d \in done
        /\ Legal(Rec(c), S)
        /\ Linearization(done \cup {c}, Apply(Rec(c), S))
C4_Linearizable == Quiescent => Linearization({}, {})

\* C5: a contains(k) that starts after an insert(k) linked its node, with
\* no remove(k) in progress or issued from that CAS until the contains
\* returns, returns true.
C5_ContainsAfterInsert ==
    \A c \in Calls :
        (Rec(c).op = "contains" /\ Rec(c).expect = "in") => Rec(c).res

\* C6: a contains(k) that starts after a remove(k) returned true, with no
\* insert(k) in progress or issued from that remove until the contains
\* returns, returns false.
C6_ContainsAfterRemove ==
    \A c \in Calls :
        (Rec(c).op = "contains" /\ Rec(c).expect = "out") => ~ Rec(c).res

\* C7: if distinct keys are inserted and remove is never called, then once
\* all inserts have returned the live count is the number of keys and every
\* contains issued after that for one of the keys returns true.
InsertOnly ==
    /\ \A t \in Threads : \A i \in 1 .. Len(FullProg(t)) : FullProg(t)[i].op # "remove"
    /\ \A t, u \in Threads : \A i \in 1 .. Len(FullProg(t)) : \A j \in 1 .. Len(FullProg(u)) :
         (FullProg(t)[i].op = "insert" /\ FullProg(u)[j].op = "insert"
          /\ FullProg(t)[i].key = FullProg(u)[j].key) => (t = u /\ i = j)
InsertedKeys ==
    {k \in Keys : \E t \in Threads : \E i \in 1 .. Len(FullProg(t)) :
                    FullProg(t)[i] = Ins(k)}
\* No insert of thread u comes after its first n calls.
NoInsertAfter(u, n) ==
    \A j \in n + 1 .. Len(FullProg(u)) : FullProg(u)[j].op # "insert"
C7_NoLostInsert ==
    InsertOnly =>
        /\ (\A t \in Threads : NoInsertAfter(t, Len(hist[t])))
              => count = Cardinality(InsertedKeys)
        /\ \A c \in Calls :
             ( /\ Rec(c).op = "contains"
               /\ Rec(c).key \in InsertedKeys
               /\ \A u \in Threads :
                    NoInsertAfter(u, IF u = c[1] THEN c[2] ELSE Rec(c).seen[u]) )
             => Rec(c).res

\* C8: a resize preserves the live set: a key that was live when
\* try_resize began and has not been removed is found by every contains
\* issued after the directory swap, and the array the swap installs holds
\* no key in two live nodes.
C8_ResizePreserves ==
    /\ [](\A c \in Calls : (Rec(c).op = "contains" /\ Rec(c).carried) => Rec(c).res)
    /\ [][current_array' # current_array => NoDuplicateKey(current_array)']_vars

\* C9: scan_retired_nodes frees no node whose address is in a hazard slot,
\* and no thread reads or writes a field of a node that has been freed.
C9_HazardsRespected ==
    /\ [][\A t \in Threads : \A n \in Addr :
            ( /\ pc[t] = "scan_loop" /\ Moved(t) /\ th[t].scan_head = n
              /\ nodeState'[n] = "freed" /\ nodeState[n] # "freed" )
            => \A u \in Threads : \A s \in 0 .. HP_COUNT_PER_THREAD - 1 : hp[u][s] # n]_vars
    /\ []("node" \notin uaf)

\* C10 as stated: a step of contains changes nothing but the caller's
\* hazard slots (and, on its first traversal, the hazard-record list).
InContains(t) == pc[t] # "idle" /\ th[t].op = "contains"
C10_ContainsReadOnly ==
    [][\A t \in Threads : (InContains(t) /\ Moved(t)) =>
          /\ UNCHANGED <<dir, heap, retired_list, retired_count>>
          /\ \A u \in Threads \ {t} : hp'[u] = hp[u]]_vars

\* C10 amended: contains never links or marks a node, never allocates, and
\* leaves the live count, the directory pointer, the resize flag and the
\* other threads' hazard slots unchanged; the only writes of its traversal
\* to bucket heads and next fields are the CAS that unlinks a node it has
\* seen marked and the retire_node / scan_retired_nodes that follow.
C10_ContainsNeverInserts ==
    [][\A t \in Threads : (InContains(t) /\ Moved(t)) =>
          /\ UNCHANGED <<dir, arrState, nodeKey>>
          /\ \A u \in Threads \ {t} : hp'[u] = hp[u]
          /\ \A n \in Addr : nodeState'[n] = "live" => nodeState[n] = "live"
          /\ \A n \in Addr : marked(nodeNext'[n]) => marked(nodeNext[n])
          /\ buckets' # buckets =>
                pc[t] = "find_bucket_unlink_cas" /\ marked(th[t].curr_nextPtr)
          /\ nodeNext' # nodeNext =>
                \/ pc[t] = "find_bucket_unlink_cas" /\ marked(th[t].curr_nextPtr)
                \/ pc[t] \in {"retire_node_push", "retire_node_store", "scan_repush"}
          /\ nodeState' # nodeState => pc[t] = "scan_loop"]_vars
\* A contains call has just executed its unlink CAS and goes on to retire.
C10_Witness ==
    \E t \in Threads : InContains(t) /\ pc[t] = "retire_node_push"

\* C11: once every operator has finished and the destructor's final
\* scan_retired_nodes has run, the retired list is empty.
Destroyed == \E t \in Threads : pc[t] = "destroyed"
C11_FinalScanEmpties == Destroyed => retired_list = NULL

\* C12: lock-freedom.  The clients issue finitely many calls, so if some
\* call were never to return while its thread keeps taking steps, only
\* finitely many operations would complete in an infinite execution:
\* every call that has been invoked eventually returns (or its thread
\* stops on an access to freed memory, or operator new has no address
\* left to give it).
InOperation(t) ==
    /\ pc[t] \notin {"idle", "crashed", "destroyed"}
    /\ th[t].op \in {"insert", "remove", "contains"}
\* No line of the source waits: a thread inside an operation has no step
\* only when its next statement is a new (lines 140, 308, 338) and every
\* address is in use.
OutOfMemory(t) == InOperation(t) /\ ~ ENABLED Step(t)
C12_LockFree ==
    \A t \in Threads : InOperation(t) ~> (~ InOperation(t) \/ OutOfMemory(t))

\* C13: while key k is absent from the set (settled[k] = "out": never
\* inserted, or removed and not inserted since), a step of remove(k)
\* leaves the live count, the directory pointer and the set of keys held
\* by unmarked nodes of the current array unchanged, and if it returns,
\* returns false.  (Unlinking a marked node the traversal meets is not
\* counted as a change of a bucket list.)
LiveKeys(a) == {nodeKey[n] : n \in LiveNodes(a)}
InRemove(t) == pc[t] \notin {"idle", "crashed"} /\ th[t].op = "remove"
RemovesAbsent(t) == InRemove(t) /\ Moved(t) /\ settled[th[t].key] = "out"
ReturnsFalse(t) ==
    Len(hist'[t]) > Len(hist[t]) => ~ hist'[t][Len(hist'[t])].res
C13_RemoveAbsent ==
    [][\A t \in Threads : RemovesAbsent(t) =>
          /\ count' = count
          /\ current_array' = current_array
          /\ LiveKeys(current_array)' = LiveKeys(current_array)
          /\ ReturnsFalse(t)]_vars

\* C14: in every reachable state the directory's bucket array has at
\* least MIN_BUCKETS buckets.
C14_MinBuckets == size(current_array) >= MIN_BUCKETS
\* A remove has asked for a halving that the clamp raised to MIN_BUCKETS.
C14_Witness ==
    \E t \in Threads :
        /\ pc[t] = "try_resize_begin" /\ th[t].op = "remove"
        /\ size(th[t].old_array) \div 2 < MIN_BUCKETS
        /\ th[t].new_size = MIN_BUCKETS

\* C15: under insert-only load (distinct keys, no remove) an insert that
\* raises the load factor above 2.0 asks for twice the bucket count, so
\* whenever no call is in progress the live count is at most 2.0 times the
\* size of the current bucket array.
C15_LoadFactorBounded ==
    (InsertOnly /\ Quiescent) => ~ AboveUpper(count, size(current_array))

\* C16 as stated: when the single operator has run the grow-then-remove
\* scenario, the bucket array is smaller than the one the inserts left
\* (a larger array has been freed), still has at least MIN_BUCKETS buckets,
\* the contains of the removed key returned false and the contains of the
\* remaining key returned true.
HistCalls(t) == [i \in 1 .. Len(hist[t]) |-> Call(hist[t][i].op, hist[t][i].key)]
ScenarioDone ==
    /\ pc[owner] \in {"idle", "dtor_delete", "destroyed"}
    /\ HistCalls(owner) = GrowThenRemove
    /\ arrState[current_array] = "live"
Shrunk == \E a \in ArrId : arrState[a] = "freed" /\ size(a) > size(current_array)
ScenarioAnswers ==
    /\ size(current_array) >= MIN_BUCKETS
    /\ ~ hist[owner][6].res
    /\ hist[owner][7].res
Sorted(a) ==
    \A n \in Reachable(a) :
        ptr(nodeNext[n]) # NULL => nodeKey[n] < nodeKey[ptr(nodeNext[n])]
C17_SortedNoDuplicate ==
    arrState[current_array] = "live" =>
        Sorted(current_array) /\ NoDuplicateKey(current_array)

\* C18: a node is pushed on the retired list only once it has been unlinked:
\* no node of the retired list is reachable from a bucket head of the
\* current array, and the retired list holds no node twice (following next
\* from a retired node never comes back to it).
RetiredNodes == Closure({retired_list} \ {NULL})
RetiredAcyclic ==
    \A n \in RetiredNodes : n \notin Closure({ptr(nodeNext[n])} \ {NULL})
C18_RetireUnlinkedOnce ==
    arrState[current_array] = "live" =>
        /\ RetiredNodes \cap Reachable(current_array) = {}
        /\ RetiredAcyclic

\* C19: whenever an operator inside find_bucket is about to read the next
\* field or the key of a node (lines 261, 268, 291), that node is published
\* in one of the operator's own hazard slots.
Dereferences(t) ==
    /\ pc[t] \in {"find_bucket_load", "find_bucket_verify"}
    /\ th[t].curr # NULL
Published(t, n) == \E i \in 0 .. HP_COUNT_PER_THREAD - 1 : hp[t][i] = n
C19_TraversalPublished ==
    \A t \in Threads : Dereferences(t) => Published(t, th[t].curr)

\* C20: no step clears the deletion mark of a node's next field, and no
\* step makes a marked node that was unlinked from the current array
\* reachable from a bucket head again (the node being the same allocation
\* before and after the step).
SameNode(n) == nodeState[n] = "live" /\ nodeState'[n] = "live"
C20_MarkPermanent ==
    [][\A n \in Addr :
          (SameNode(n) /\ marked(nodeNext[n])) =>
              /\ marked(nodeNext'[n])
              /\ (current_array' = current_array /\ n \notin Reachable(current_array))
                     => n \notin Reachable(current_array)']_vars

\* C21: whenever no operation is in progress, the live count equals the
\* number of unmarked nodes reachable from the current bucket array.
C21_CountMatchesLive ==
    (Quiescent /\ arrState[current_array] = "live") =>
        count = Cardinality(LiveNodes(current_array))

\* C22: the rebuild of a resize copies only unmarked nodes: a step of
\* rehash_bucket that visits a node whose next field is marked allocates
\* no copy of it and links nothing into the new bucket array.
VisitsMarked(t) ==
    /\ pc[t] = "rehash_bucket_node"
    /\ Moved(t)
    /\ nodeState[th[t].rcurr] = "live"
    /\ marked(nodeNext[th[t].rcurr])
C22_RehashSkipsMarked ==
    [][\A t \in Threads :
          VisitsMarked(t) => (nodeState' = nodeState /\ buckets' = buckets)]_vars

\* C23: no operation reads the size or a bucket head of a bucket array
\* that has been freed.
C23_NoFreedArrayRead == "array" \notin uaf

\* C25: at most one operator at a time is between winning the resizing
\* flag and clearing it, and the flag is set while one is; an operator
\* whose try_resize finds the flag set returns in that step without
\* allocating an array and without changing the directory pointer.
Rebuilding(t) ==
    pc[t] \in {"rehash_bucket_head", "rehash_bucket_node", "try_resize_swap",
               "try_resize_clear"}
LosesFlag(t) ==
    /\ pc[t] = "try_resize_begin"
    /\ th[t].new_size # size(th[t].old_array)
    /\ resizing
AtSwap(t) == pc[t] = "try_resize_swap" /\ Moved(t)
C27_DirectoryByCasOnly ==
    [][/\ current_array' # current_array =>
              \E t \in Threads : /\ AtSwap(t)
                                 /\ current_array = th[t].old_array
                                 /\ current_array' = th[t].new_array
       /\ \A t \in Threads :
              (AtSwap(t) /\ current_array # th[t].old_array) =>
                  /\ current_array' = current_array
                  /\ arrState'[th[t].new_array] = "freed"]_vars
C27_Witness ==
    \E t \in Threads :
        /\ pc[t] = "try_resize_clear"
        /\ current_array # th[t].new_array
        /\ arrState[th[t].new_array] = "freed"

\* C28: an insert call leaves no node of a failed attempt behind: when the
\* call goes round its loop again, the node it allocated for the attempt
\* that failed has been released or is the node of the new attempt.
Retries(t) == pc[t] = "insert_begin" /\ Moved(t) /\ th[t].new_node # NULL
C28_InsertReleasesNode ==
    [][\A t \in Threads :
          Retries(t) => \/ nodeState'[th[t].new_node] = "freed"
                        \/ th'[t].new_node = th[t].new_node]_vars

\* C29: every successful CAS on a tagged reference in insert, remove,
\* find_bucket and rehash_bucket installs a word whose tag is the old tag
\* plus one modulo 2^15, and whose address and mark bits are those the CAS
\* asked for (after a tag of 2^15 - 1 the tag is 0 and nothing carries
\* into the mark bit or the address).
CasSlot(t) ==
    CASE pc[t] \in {"insert_cas", "remove_unlink", "find_bucket_unlink_cas"} -> th[t].prev
      [] pc[t] = "remove_mark" -> NodeSlot(th[t].curr)
      [] pc[t] = "rehash_bucket_node" ->
             BucketSlot(th[t].new_array, hash(nodeKey[th[t].rcurr], size(th[t].new_array)))
      [] OTHER -> NoSlot
\* The word slot s holds after the step.
SlotLoadNext(s) ==
    IF s.n # 0 THEN nodeNext'[s.n]
    ELSE IF s.i < Len(buckets'[s.a]) THEN buckets'[s.a][s.i + 1] ELSE 0
CasWon(t) ==
    /\ Moved(t)
    /\ CasSlot(t) # NoSlot
    /\ SlotLoadNext(CasSlot(t)) # SlotLoad(CasSlot(t))
AskedFor(t, w) ==
    CASE pc[t] = "insert_cas" -> ptr(w) = th[t].new_node /\ ~ marked(w)
      [] pc[t] = "remove_mark" -> ptr(w) = ptr(th[t].curr_next) /\ marked(w)
      [] pc[t] = "remove_unlink" -> ptr(w) = ptr(th[t].curr_next) /\ ~ marked(w)
      [] pc[t] = "find_bucket_unlink_cas" -> ptr(w) = th[t].next_node /\ ~ marked(w)
      [] OTHER -> ptr(w) # NULL /\ ~ marked(w)
C29_TagIncrements ==
    [][\A t \in Threads :
          CasWon(t) =>
              /\ tag(SlotLoadNext(CasSlot(t))) = (tag(SlotLoad(CasSlot(t))) + 1) % 2 ^ kTagBits
              /\ AskedFor(t, SlotLoadNext(CasSlot(t)))]_vars
C29_Witness ==
    /\ arrState[1] = "live"
    /\ current_array = 1
    /\ tag(BucketAt(1, 0)) = 0
    /\ ptr(BucketAt(1, 0)) = NULL
    /\ \E t \in Threads : Len(hist[t]) > 0

(* -------------------------- retired_count ----------------------------- *)
\* A retire_node or scan_retired_nodes call of thread t is in progress.
Reclaiming(t) ==
    pc[t] \in {"retire_node_push", "retire_node_cas", "retire_node_store",
               "retire_node_count", "scan_snapshot", "scan_detach", "scan_loop",
               "scan_repush", "scan_repush_cas", "scan_store_count"}

\* C30: whenever no retire_node or scan_retired_nodes call is in progress
\* (and no thread has been stopped inside one), retired_count equals the
\* number of nodes on the retired list; in particular a scan that ran
\* concurrently with retire_node calls has not lost their increments.
C30_RetiredCountExact ==
    (\A t \in Threads : ~ Reclaiming(t) /\ pc[t] # "crashed")
        => retired_count = Cardinality(RetiredNodes)

(* ----------------------- what find_bucket returns --------------------- *)
SpecLinks == InitLinks /\ [][Next]_vars

\* find_bucket of thread t returns {prev_nextPtr, curr} with curr non-null
\* (line 291).
FindReturns(t) ==
    /\ pc[t] = "find_bucket_verify"
    /\ pc'[t] \in {"insert_check", "remove_check", "contains_return"}

\* Node n has been handed to retire_node: it is on the retired list, or a
\* retire_node(n) call is in progress, or it has been freed.
Retired(n) ==
    \/ n \in RetiredNodes
    \/ nodeState[n] # "live"
    \/ \E u \in Threads : th[u].node = n

\* C24 (first half): when find_bucket returns (prev_slot, curr) with curr
\* non-null, there was a moment during the call, the moment of the return
\* included, at which prev_slot held an unmarked pointer to curr and curr's
\* next field was unmarked; on every path, the one through a failed unlink
\* CAS included.  Stated for a curr that has not been handed to
\* retire_node, whose next field only the table's own CASes have written.
C24_ReturnedLinkExisted ==
    [][\A t \in Threads :
          (FindReturns(t) /\ ~ Retired(th[t].curr))
              => <<th[t].prev, th[t].curr>> \in links[t] \cup CleanLinks]_vars

(* ------------------------ MarkedPtr round trip ------------------------ *)
\* Tags below 2^15 the round trip is run on: the small ones, every power of
\* two and its predecessor, and the largest ones.
TagSamples ==
    (0 .. 7) \cup {2 ^ k : k \in 0 .. kTagBits - 1}
             \cup {2 ^ k - 1 : k \in 1 .. kTagBits}
             \cup (2 ^ kTagBits - 8 .. 2 ^ kTagBits - 1)
\* The arguments of the constructor: an address that fits the pointer field,
\* a mark bit and a tag.
Fields == [p : 0 .. kPtrMask, m : BOOLEAN, t : TagSamples]
\* The arguments of the value the first one is compared with.
FieldsOther == [p : {0, 1, kPtrMask}, m : BOOLEAN, t : {0, 1, 2 ^ (kTagBits - 1), kTagMask}]

\* A caller holds the fields of two tagged references; the table is idle.
InitPack ==
    /\ Start({ThreeThreads(<<>>, <<>>, <<>>)}, {0})
    /\ probe \in [stage : {"args"}, a : Fields, b : FieldsOther]

\* lines 29-34: both values are constructed.
MarkedPtr_ctor ==
    /\ probe.stage = "args"
    /\ probe' = [stage |-> "built", a |-> probe.a, b |-> probe.b,
                 wa |-> MarkedPtr(probe.a.p, probe.a.m, probe.a.t),
                 wb |-> MarkedPtr(probe.b.p, probe.b.m, probe.b.t)]
    /\ UNCHANGED <<dir, heap, smr, pc, th, prog, hardware_concurrency, uaf, ghost, links>>

\* lines 36-42: ptr(), tag() and marked() of both values, and operator!=.
MarkedPtr_read ==
    /\ probe.stage = "built"
    /\ probe' = [stage |-> "read", a |-> probe.a, b |-> probe.b,
                 wa |-> probe.wa, wb |-> probe.wb,
                 ra |-> [p |-> ptr(probe.wa), m |-> marked(probe.wa), t |-> tag(probe.wa)],
                 rb |-> [p |-> ptr(probe.wb), m |-> marked(probe.wb), t |-> tag(probe.wb)],
                 ne |-> probe.wa # probe.wb]
    /\ UNCHANGED <<dir, heap, smr, pc, th, prog, hardware_concurrency, uaf, ghost, links>>

NextPack == MarkedPtr_ctor \/ MarkedPtr_read

SpecPack == InitPack /\ [][NextPack]_vars

\* C31: for every address that fits the pointer field, every mark bit and
\* every tag below 2^15, ptr(), marked() and tag() of MarkedPtr(ptr, marked,
\* tag) return exactly the arguments, and two values are equal (operator!=
\* is false) if and only if their three fields are equal.
C31_PackingRoundTrips ==
    probe.stage = "read" =>
        /\ probe.ra = probe.a
        /\ probe.rb = probe.b
        /\ (~ probe.ne) <=> (probe.a = probe.b)

\* Reached: the largest address, the mark and the largest tag have been
\* packed and read back, and compared with an equal value.
C31_Witness ==
    /\ probe.stage = "read"
    /\ probe.a = [p |-> kPtrMask, m |-> TRUE, t |-> kTagMask]
    /\ probe.b = probe.a
    /\ ~ probe.ne

=============================================================================
